---- MODULE Spec2Model ----
(***************************************************************************)
(* Authentication / session lifecycle of the Express + Mongoose backend:   *)
(* the user model (src/src/index.js), the controllers                      *)
(* (src/src/controllers/user.controller.js), the auth middleware           *)
(* (src/unnamed/part_003) and the route table (src/src/routes).            *)
(*                                                                         *)
(* One action is one HTTP request, run from the first middleware of its    *)
(* route to the response (or to Express' default error handler).  RaceSpec *)
(* runs two requests concurrently, one database operation per step.        *)
(***************************************************************************)
EXTENDS Integers, Sequences, FiniteSets, TLC

VARIABLES
    db,             \* the users collection: a sequence of documents, _id = index
    now,            \* the clock jwt.sign / jwt.verify read (ticks)
    req,            \* the request handled last
    resp,           \* the response it was answered with
    session,        \* history: the cookies the latest successful Login set, and their use since
    calls           \* the handlers of concurrent requests, each at one of its awaits

vars == <<db, now, req, resp, session, calls>>

-----------------------------------------------------------------------------
(* Bounds of the model *)

MaxTime == 3        \* the clock runs 0..MaxTime
MaxDefects == 1     \* a Register request has at most this many parts missing or blank
MaxRaceTime == 1    \* the clock runs 0..MaxRaceTime while requests run concurrently

(* Token lifetimes, in ticks: ACCESS_TOKEN_EXPIRY (15m) is shorter than     *)
(* REFRESH_TOKEN_EXPIRY (7d).                                               *)
AccessExpiry == 2
RefreshExpiry == 3

-----------------------------------------------------------------------------
(* JavaScript values.  Text fields of a request body are strings, Absent   *)
(* is the value of a key the body does not carry (undefined).  Credentials *)
(* (cookies, headers, token fields) are records, Undefined is undefined    *)
(* and StrUndefined the string "undefined".                                *)

Absent == "<absent>"

Undefined == [k |-> "undefined", secret |-> "", sub |-> 0, iat |-> 0]
StrUndefined == [k |-> "string", secret |-> "", sub |-> 0, iat |-> 0]

ACCESS_TOKEN_SECRET == "ACCESS_TOKEN_SECRET"
REFRESH_TOKEN_SECRET == "REFRESH_TOKEN_SECRET"
Secrets == {ACCESS_TOKEN_SECRET, REFRESH_TOKEN_SECRET}

Expiry(secret) == IF secret = ACCESS_TOKEN_SECRET THEN AccessExpiry ELSE RefreshExpiry

\* jwt.sign(payload, secret, {expiresIn}): iat is the clock, exp = iat + expiresIn
jwtSign(sub, secret, t) == [k |-> "jwt", secret |-> secret, sub |-> sub, iat |-> t]

IsJwt(v) == v.k = "jwt"

\* jwt.verify with the expiry test left out
jwtVerify_ignoresExpiry(token, secret, t) ==
    IF ~IsJwt(token) \/ token.secret # secret
    THEN [ok |-> FALSE, error |-> "JsonWebTokenError", _id |-> 0]
    ELSE [ok |-> TRUE, error |-> "none", _id |-> token.sub]

\* jwt.verify(token, secret): the decoded payload, or the error it throws
jwtVerify(token, secret, t) ==
    IF ~IsJwt(token) THEN [ok |-> FALSE, error |-> "JsonWebTokenError", _id |-> 0]
    ELSE IF token.secret # secret THEN [ok |-> FALSE, error |-> "JsonWebTokenError", _id |-> 0]
    ELSE IF t >= token.iat + Expiry(token.secret)
        THEN [ok |-> FALSE, error |-> "TokenExpiredError", _id |-> 0]
    ELSE [ok |-> TRUE, error |-> "none", _id |-> token.sub]

\* truthiness of a credential value, and a || b
Truthy(v) == v.k # "undefined"
JsOr(a, b) == IF Truthy(a) THEN a ELSE b

\* String(value), as res.cookie() serialises a cookie value
JsString(v) == IF v = Undefined THEN StrUndefined ELSE v

\* truthiness of a text field: undefined and "" are falsy
TruthyText(s) == s \notin {Absent, ""}

\* String.prototype.trim and toLowerCase on the strings of the model
trim(s) == IF s = " " THEN "" ELSE s
toLowerCase(s) ==
    CASE s = "Alice" -> "alice"
      [] s = "A@X.com" -> "a@x.com"
      [] OTHER -> s

\* field?.trim()
OptTrim(s) == IF s = Absent THEN Absent ELSE trim(s)

-----------------------------------------------------------------------------
(* Errors and the request boundary *)

ApiError(statusCode) == [name |-> "ApiError", statusCode |-> statusCode]
\* errors that carry no statusCode property
ReferenceError == [name |-> "ReferenceError", statusCode |-> 0]
TypeError == [name |-> "TypeError", statusCode |-> 0]
ValidationError == [name |-> "ValidationError", statusCode |-> 0]
MongoServerError == [name |-> "MongoServerError", statusCode |-> 0]
BcryptError == [name |-> "Error", statusCode |-> 0]
NoError == [name |-> "none", statusCode |-> 0]

\* asyncHandler forwards the rejection to next(err); no error middleware is
\* registered, so Express' default handler answers with err.statusCode when it
\* is a 4xx/5xx code and with 500 otherwise
errorStatus(err) == IF err.statusCode >= 400 /\ err.statusCode < 600 THEN err.statusCode ELSE 500

-----------------------------------------------------------------------------
(* The user model *)

\* bcrypt.hash(password, 10) and bcrypt.compare(password, hash)
bcryptHash(p) ==
    CASE p = "p1" -> "$2b$10$p1"
      [] p = "p2" -> "$2b$10$p2"
      [] OTHER -> "$2b$10$"
bcryptCompare(p, hash) == bcryptHash(p) = hash

\* the pre("save") hook without its bcrypt.hash call
preSave_keepsPlaintext(password, isModified) == [err |-> NoError, password |-> password]

\* the pre("save") hook without its isModified("password") check
preSave_hashesAlways(password, isModified) ==
    IF password = Absent THEN [err |-> BcryptError, password |-> password]
    ELSE [err |-> NoError, password |-> bcryptHash(password)]

\* userSchema.pre("save"): the password is hashed when it was modified, and
\* bcrypt.hash(undefined, 10) rejects (data and salt arguments required)
preSave(password, isModified) ==
    IF ~isModified THEN [err |-> NoError, password |-> password]
    ELSE IF password = Absent THEN [err |-> BcryptError, password |-> password]
    ELSE [err |-> NoError, password |-> bcryptHash(password)]

\* the username path without `lowercase: true`
castUsername_trimOnly(s) == IF s = Absent THEN Absent ELSE trim(s)

\* schema setters, run on documents and on query filters alike
castUsername(s) == IF s = Absent THEN Absent ELSE toLowerCase(trim(s))
castEmail(s) == IF s = Absent THEN Absent ELSE toLowerCase(s)
castFullName(s) == IF s = Absent THEN Absent ELSE trim(s)

\* User.findById(id): 0 when there is no such document
findById(d, id) == IF id \in 1..Len(d) THEN id ELSE 0

\* User.findOne({$or: [{username}, {email}]}): the first document matching
\* either; an undefined operand is sent as null and matches no document
findOne(d, username, email) ==
    LET hits == {i \in 1..Len(d) :
                    \/ (username # Absent /\ d[i].username = castUsername(username))
                    \/ (email # Absent /\ d[i].email = castEmail(email))}
    IN IF hits = {} THEN 0 ELSE CHOOSE i \in hits : \A j \in hits : i <= j

\* userSchema.methods.isPasswordCorrect
isPasswordCorrect(user, password) == bcryptCompare(password, user.password)

\* userSchema.methods.generateAccessToken / generateRefershToken: the token is
\* signed, and the function ends without a return statement
generateAccessToken(id, t) ==
    LET signed == jwtSign(id, ACCESS_TOKEN_SECRET, t) IN Undefined
\* generateRefershToken with the `return` its body lacks
generateRefershToken_returnsToken(id, t) == jwtSign(id, REFRESH_TOKEN_SECRET, t)

generateRefershToken(id, t) ==
    LET signed == jwtSign(id, REFRESH_TOKEN_SECRET, t) IN Undefined

\* .select("-password -refreshToken") with the second exclusion left out
select_passwordOnly(doc) == [f \in DOMAIN doc \ {"password"} |-> doc[f]]

\* .select("-password -refreshToken"): the document without these two paths
select(doc) == [f \in DOMAIN doc \ {"password", "refreshToken"} |-> doc[f]]

\* no document
NoUser == <<>>

-----------------------------------------------------------------------------
(* Responses *)

NoCookies == {}
TokenCookies == {"accessToken", "refreshToken"}

\* const options = {httpOnly: true, secure: true}
CookieOptions == {"httpOnly", "secure"}

\* the answer of Express' default error handler to next(err): the status, and
\* an HTML page (the stack, or the status text in production)
Fail(d, err) ==
    [db |-> d, status |-> errorStatus(err), error |-> err.name, uid |-> 0, user |-> NoUser,
     body |-> "html", temp |-> {},
     bodyAccessToken |-> Undefined, bodyRefreshToken |-> Undefined,
     cookieAccessToken |-> Undefined, cookieRefreshToken |-> Undefined,
     cookieOptions |-> {}, cleared |-> NoCookies]

\* res.status(status).json(new ApiResponse(...)) with nothing about tokens in it
Reply(d, status, uid) ==
    [db |-> d, status |-> status, error |-> "none", uid |-> uid, user |-> NoUser,
     body |-> "ApiResponse", temp |-> {},
     bodyAccessToken |-> Undefined, bodyRefreshToken |-> Undefined,
     cookieAccessToken |-> Undefined, cookieRefreshToken |-> Undefined,
     cookieOptions |-> {}, cleared |-> NoCookies]

\* res.status(200).cookie("accessToken", a).cookie("refreshToken", r).json({accessToken: a, refreshToken: r}):
\* a cookie carries String(value), JSON.stringify drops a key whose value is undefined
ReplyTokens(d, uid, accessToken, refreshToken) ==
    [db |-> d, status |-> 200, error |-> "none", uid |-> uid, user |-> NoUser,
     body |-> "ApiResponse", temp |-> {},
     bodyAccessToken |-> accessToken, bodyRefreshToken |-> refreshToken,
     cookieAccessToken |-> JsString(accessToken),
     cookieRefreshToken |-> JsString(refreshToken),
     cookieOptions |-> CookieOptions, cleared |-> NoCookies]

-----------------------------------------------------------------------------
(* Controllers *)

\* null, and the local path of a file part the request does not carry
Null == "<null>"
NoPath == "<undefined>"

\* what multer left in req.files: undefined for a request that is not
\* multipart, else one entry per file part received.  A part is "absent", or
\* it was written to ./public/temp and its upload to Cloudinary "uploads" or
\* "fails"
Parts == {"absent", "uploads", "fails"}
NoFiles == [defined |-> FALSE, avatar |-> "absent", coverImage |-> "absent"]
Files ==
    {NoFiles} \cup {[defined |-> TRUE, avatar |-> a, coverImage |-> "absent"] : a \in Parts}
UploadFiles ==
    {NoFiles} \cup {[defined |-> TRUE, avatar |-> a, coverImage |-> c] : a \in Parts, c \in Parts}

\* upload.fields([{name: "avatar"}, {name: "coverImage"}]): the temporary
\* files of this request in ./public/temp (diskStorage names each file after
\* the time of the request, so no two requests share a file)
multer(files) == {f \in {"avatar", "coverImage"} : files[f] # "absent"}

\* uploadOnCloudinary(localFilePath) in a file system fs: the response (named
\* after the file it is the url of) or null, and the file system it leaves;
\* fs.unlinkSync runs in the catch block only
uploadOnCloudinary(localFilePath, uploads, fs) ==
    IF localFilePath = NoPath THEN [response |-> Null, fs |-> fs]
    ELSE IF uploads THEN [response |-> localFilePath, fs |-> fs]
    ELSE [response |-> Null, fs |-> fs \ {localFilePath}]

\* the fields [fullName, email, username, password].some(f => f?.trim() === "") finds blank
someBlank(body) ==
    \E f \in {body.fullName, body.email, body.username, body.password} : OptTrim(f) = ""

\* User.create(fields) without the unique indexes of the schema
create_noUniqueIndex(d, fields, t) ==
    LET doc == [username |-> castUsername(fields.username),
                email |-> castEmail(fields.email),
                fullName |-> castFullName(fields.fullName),
                avatar |-> fields.avatar,
                coverImage |-> fields.coverImage,
                password |-> preSave(fields.password, TRUE).password,
                refreshToken |-> Undefined,
                updatedAt |-> t]
    IN IF \/ fields.email \in {Absent, ""}
          \/ fields.password \in {Absent, ""}
          \/ doc.fullName \in {Absent, ""}
          \/ doc.username \in {Absent, ""}
          \/ doc.avatar \in {Null, ""}
       THEN [err |-> ValidationError, db |-> d]
       ELSE [err |-> NoError, db |-> Append(d, doc)]

\* User.create(fields): schema validation (required paths), pre("save") hashing, the
\* insert under the unique indexes of username and email; {timestamps: true}
\* stamps the document
create(d, fields, t) ==
    LET doc == [username |-> castUsername(fields.username),
                email |-> castEmail(fields.email),
                fullName |-> castFullName(fields.fullName),
                avatar |-> fields.avatar,
                coverImage |-> fields.coverImage,
                password |-> preSave(fields.password, TRUE).password,
                refreshToken |-> Undefined,
                updatedAt |-> t]
    IN IF \/ fields.email \in {Absent, ""}
          \/ fields.password \in {Absent, ""}
          \/ doc.fullName \in {Absent, ""}
          \/ doc.username \in {Absent, ""}
          \/ doc.avatar \in {Null, ""}
       THEN [err |-> ValidationError, db |-> d]
       ELSE IF \E i \in 1..Len(d) : d[i].username = doc.username \/ d[i].email = doc.email
       THEN [err |-> MongoServerError, db |-> d]
       ELSE [err |-> NoError, db |-> Append(d, doc)]

\* the object registerUser passes to User.create
createFields(body, avatar, coverImage) ==
    [fullName |-> body.fullName,
     avatar |-> avatar,
     \* coverImage?.url || ""
     coverImage |-> IF coverImage = Null THEN "" ELSE coverImage,
     email |-> body.email,
     password |-> body.password,
     username |-> toLowerCase(body.username)]

\* registerUser with User.create moved before the avatar checks
registerUser_createsBeforeUpload(d, body, files, t) ==
    LET written == multer(files)
        avatarLocalPath == IF files.avatar = "absent" THEN NoPath ELSE "avatar"
        coverImageLocalPath == IF files.coverImage = "absent" THEN NoPath ELSE "coverImage"
        avatar == uploadOnCloudinary(avatarLocalPath, files.avatar = "uploads", written)
        coverImage == uploadOnCloudinary(coverImageLocalPath, files.coverImage = "uploads",
                                         avatar.fs)
    IN IF someBlank(body) THEN [Fail(d, ApiError(400)) EXCEPT !.temp = written]
       ELSE IF findOne(d, body.username, body.email) # 0
            THEN [Fail(d, ApiError(409)) EXCEPT !.temp = written]
       ELSE IF body.username = Absent THEN [Fail(d, TypeError) EXCEPT !.temp = written]
       ELSE LET made == create(d, createFields(body, "avatar", Null), t)
            IN IF made.err # NoError THEN [Fail(d, made.err) EXCEPT !.temp = written]
               ELSE IF files.defined /\ files.avatar = "absent"
                    THEN [Fail(made.db, TypeError) EXCEPT !.temp = written]
               ELSE IF avatarLocalPath = NoPath
                    THEN [Fail(made.db, ApiError(400)) EXCEPT !.temp = written]
               ELSE IF avatar.response = Null
                    THEN [Fail(made.db, ApiError(400)) EXCEPT !.temp = coverImage.fs]
               ELSE LET createdUser == select(made.db[Len(made.db)])
                    IN [Reply(made.db, 201, Len(made.db))
                            EXCEPT !.user = createdUser, !.temp = coverImage.fs]

\* registerUser, behind the multer middleware of its route; `temp` of the
\* answer is what is left of the request's temporary files
registerUser(d, body, files, t) ==
    LET written == multer(files)
        \* req.files?.avatar[0]?.path, and the coverImage path when there is one
        avatarLocalPath == IF files.avatar = "absent" THEN NoPath ELSE "avatar"
        coverImageLocalPath == IF files.coverImage = "absent" THEN NoPath ELSE "coverImage"
        avatar == uploadOnCloudinary(avatarLocalPath, files.avatar = "uploads", written)
        coverImage == uploadOnCloudinary(coverImageLocalPath, files.coverImage = "uploads",
                                         avatar.fs)
    IN IF someBlank(body) THEN [Fail(d, ApiError(400)) EXCEPT !.temp = written]
       ELSE IF findOne(d, body.username, body.email) # 0
            THEN [Fail(d, ApiError(409)) EXCEPT !.temp = written]
       \* req.files.avatar is undefined: reading its [0] throws
       ELSE IF files.defined /\ files.avatar = "absent"
            THEN [Fail(d, TypeError) EXCEPT !.temp = written]
       ELSE IF avatarLocalPath = NoPath THEN [Fail(d, ApiError(400)) EXCEPT !.temp = written]
       \* both uploads have run when the avatar's response is tested
       ELSE IF avatar.response = Null
            THEN [Fail(d, ApiError(400)) EXCEPT !.temp = coverImage.fs]
       \* username.toLowerCase() of an undefined username
       ELSE IF body.username = Absent THEN [Fail(d, TypeError) EXCEPT !.temp = coverImage.fs]
       ELSE LET made == create(d, createFields(body, avatar.response, coverImage.response), t)
            IN IF made.err # NoError THEN [Fail(d, made.err) EXCEPT !.temp = coverImage.fs]
               \* createdUser = User.findById(user._id).select("-password -refreshToken")
               ELSE LET createdUser == select(made.db[Len(made.db)])
                    IN [Reply(made.db, 201, Len(made.db))
                            EXCEPT !.user = createdUser, !.temp = coverImage.fs]

\* user.refreshToken = refreshToken; user.save({validateBeforeSave: false}):
\* the pre("save") hook runs with the password not modified; a save that
\* modifies no path writes nothing, one that does stamps updatedAt
generateAccessAndRefreshTokens(d, userId, t) ==
    LET refreshToken == generateRefershToken(userId, t)
        accessToken == generateAccessToken(userId, t)
        hooked == preSave(d[userId].password, FALSE)
        saved == IF /\ d[userId].refreshToken = refreshToken
                    /\ d[userId].password = hooked.password
                 THEN d
                 ELSE [d EXCEPT ![userId].refreshToken = refreshToken,
                                ![userId].password = hooked.password,
                                ![userId].updatedAt = t]
    IN [db |-> saved, accessToken |-> accessToken, refreshToken |-> refreshToken]

loginUser(d, body, t) ==
    IF ~(TruthyText(body.username) \/ TruthyText(body.email)) THEN Fail(d, ApiError(400))
    ELSE LET user == findOne(d, body.username, body.email)
         IN IF user = 0 THEN Fail(d, ApiError(404))
            \* bcrypt.compare(undefined, hash) rejects: data and hash arguments required
            ELSE IF body.password = Absent THEN Fail(d, BcryptError)
            ELSE IF ~isPasswordCorrect(d[user], body.password) THEN Fail(d, ApiError(401))
            ELSE LET tokens == generateAccessAndRefreshTokens(d, user, t)
                     loggedInUser == select(tokens.db[user])
                 IN [ReplyTokens(tokens.db, user, tokens.accessToken, tokens.refreshToken)
                        EXCEPT !.user = loggedInUser]

\* verifyJWT reading the Authorization header before the cookie
verifyJWT_headerFirst(d, cookie, authorization, t) ==
    LET token == JsOr(authorization, cookie)
        decodeToken == jwtVerify(token, ACCESS_TOKEN_SECRET, t)
        refused == [user |-> 0, reqUser |-> NoUser, err |-> ApiError(401)]
    IN IF ~Truthy(token) THEN refused
       ELSE IF ~decodeToken.ok THEN refused
       ELSE IF findById(d, decodeToken._id) = 0 THEN refused
       ELSE [user |-> decodeToken._id, reqUser |-> select(d[decodeToken._id]),
             err |-> NoError]

\* verifyJWT: the user the request is authenticated as, or the error thrown;
\* every error raised in its try block is rethrown as ApiError(401).
\* `authorization` is the header after .replace("Bearer ", ""), Undefined
\* when the request has no such header
verifyJWT(d, cookie, authorization, t) ==
    LET token == JsOr(cookie, authorization)
        decodeToken == jwtVerify(token, ACCESS_TOKEN_SECRET, t)
        refused == [user |-> 0, reqUser |-> NoUser, err |-> ApiError(401)]
    IN IF ~Truthy(token) THEN refused
       ELSE IF ~decodeToken.ok THEN refused
       ELSE IF findById(d, decodeToken._id) = 0 THEN refused
       \* req.user = User.findById(decodeToken._id).select("-password -refreshToken")
       ELSE [user |-> decodeToken._id, reqUser |-> select(d[decodeToken._id]),
             err |-> NoError]

\* logoutUser with the second clearCookie call left out
logoutClearedCookies_accessOnly == {"accessToken"}

\* the cookies logoutUser clears
logoutClearedCookies == TokenCookies

\* an update that stores a token signed at the time of the call instead
unsetRefreshToken_storesToken(d, userId, strips, t) ==
    [d EXCEPT ![userId].refreshToken = jwtSign(userId, REFRESH_TOKEN_SECRET, t),
              ![userId].updatedAt = t]

\* User.findByIdAndUpdate(userId, {$set: {refreshToken: undefined}}, {new: true}).
\* What the update does is the installed Mongoose's choice: since 6.0 a key
\* whose value is undefined is stripped from the update, which then leaves the
\* field as it is; before, the key is sent and MongoDB stores null.  The code
\* reads the field only to compare it with a token string, so the model has
\* one value, Undefined, for a field that holds no token.  Either way the
\* schema's {timestamps: true} adds updatedAt to the $set of the update.
unsetRefreshToken(d, userId, strips, t) ==
    IF strips THEN [d EXCEPT ![userId].updatedAt = t]
    ELSE [d EXCEPT ![userId].refreshToken = Undefined, ![userId].updatedAt = t]

logoutUser(d, userId, strips, t) ==
    [Reply(unsetRefreshToken(d, userId, strips, t), 200, userId)
        EXCEPT !.cleared = logoutClearedCookies]

\* changeCurrentPassword without its isPasswordCorrect test
changeCurrentPassword_noCheck(d, userId, body, t) ==
    LET saved == preSave(body.newPassowrd, TRUE)
    IN IF saved.err # NoError THEN Fail(d, saved.err)
       ELSE Reply([d EXCEPT ![userId].password = saved.password,
                            ![userId].updatedAt = t], 200, userId)

\* changeCurrentPassword, run for the user verifyJWT put in req.user; the body
\* key it reads the new password from is `newPassowrd`
changeCurrentPassword(d, userId, body, t) ==
    LET user == findById(d, userId)
    IN \* user.isPasswordCorrect of a null user
       IF user = 0 THEN Fail(d, TypeError)
       \* bcrypt.compare(undefined, hash) rejects
       ELSE IF body.oldPassword = Absent THEN Fail(d, BcryptError)
       ELSE IF ~isPasswordCorrect(d[user], body.oldPassword) THEN Fail(d, ApiError(400))
       \* user.password = newPassowrd; user.save({validateBeforeSave: false})
       ELSE LET saved == preSave(body.newPassowrd, TRUE)
            IN IF saved.err # NoError THEN Fail(d, saved.err)
               ELSE Reply([d EXCEPT ![user].password = saved.password,
                                    ![user].updatedAt = t], 200, user)

\* .select("-password"): the document without its password
selectWithoutPassword(doc) == [f \in DOMAIN doc \ {"password"} |-> doc[f]]

\* getCurrentUser: res.status(200).json(200, req.user, "..."); res.json sends
\* its first argument, the number 200
getCurrentUser(d, userId) == [Reply(d, 200, userId) EXCEPT !.body = "200"]

\* updateAccountDetails: the query is not awaited, so no update runs and
\* `user` is the Query object.  JSON.stringify of it either throws (circular
\* structure: TypeError) or renders the query itself, no document
updateAccountDetails(d, userId, body, circular) ==
    IF ~(TruthyText(body.fullName) \/ TruthyText(body.email)) THEN Fail(d, ApiError(400))
    ELSE IF circular THEN Fail(d, TypeError)
    ELSE Reply(d, 200, userId)

\* updateAvatar and updateCoverImage, for the path `field` of the document:
\* req.file of upload.single, uploadOnCloudinary, then
\* findByIdAndUpdate(req.user._id, {$set: {[field]: url}}, {new: true}).select("-password")
updateImage(d, userId, field, file, t) ==
    LET localPath == IF file = "absent" THEN NoPath ELSE field
        image == uploadOnCloudinary(localPath, file = "uploads", {localPath})
    IN IF localPath = NoPath THEN Fail(d, ApiError(400))
       \* `avatar.url` of null
       ELSE IF image.response = Null THEN [Fail(d, TypeError) EXCEPT !.temp = image.fs]
       ELSE LET updated == [d EXCEPT ![userId][field] = image.response,
                                     ![userId].updatedAt = t]
            IN [Reply(updated, 200, userId)
                    EXCEPT !.user = selectWithoutPassword(updated[userId]),
                           !.temp = image.fs]

updateAvatar(d, userId, file, t) == updateImage(d, userId, "avatar", file, t)

updateCoverImage(d, userId, file, t) == updateImage(d, userId, "coverImage", file, t)

\* the catch block of refershAccessToken evaluates `new APiError(...)`; the
\* module binds ApiError only, so the evaluation itself throws
refreshCatch(error) == ReferenceError

\* refershAccessToken without the comparison with the persisted token
refershAccessToken_noCompare(d, cookie, bodyToken, t) ==
    LET incomingRefreshToken == JsOr(cookie, bodyToken)
        decodedToken == jwtVerify(incomingRefreshToken, REFRESH_TOKEN_SECRET, t)
        user == findById(d, decodedToken._id)
    IN IF ~Truthy(incomingRefreshToken) THEN Fail(d, ApiError(401))
       ELSE IF ~decodedToken.ok THEN Fail(d, refreshCatch(decodedToken.error))
       ELSE IF user = 0 THEN Fail(d, refreshCatch(ApiError(401)))
       ELSE LET tokens == generateAccessAndRefreshTokens(d, user, t)
                newRefreshToken == Undefined
            IN ReplyTokens(tokens.db, user, tokens.accessToken, newRefreshToken)

\* the paths the user router answers, and Express' answer to any other path
Routes == {"/register", "/login", "/logout", "/refresh-token"}
notFound(d) == [Reply(d, 404, 0) EXCEPT !.error = "NotFound", !.body = "html"]

refershAccessToken(d, cookie, bodyToken, t) ==
    LET incomingRefreshToken == JsOr(cookie, bodyToken)
        decodedToken == jwtVerify(incomingRefreshToken, REFRESH_TOKEN_SECRET, t)
        user == findById(d, decodedToken._id)
    IN IF ~Truthy(incomingRefreshToken) THEN Fail(d, ApiError(401))
       ELSE IF ~decodedToken.ok THEN Fail(d, refreshCatch(decodedToken.error))
       ELSE IF user = 0 THEN Fail(d, refreshCatch(ApiError(401)))
       \* `throw new APiError(...)` in the try block: a ReferenceError, caught below
       ELSE IF incomingRefreshToken # d[user].refreshToken
            THEN Fail(d, refreshCatch(ReferenceError))
       \* const {accessToken, newRefreshToken} = ...: the result has no key newRefreshToken
       ELSE LET tokens == generateAccessAndRefreshTokens(d, user, t)
                newRefreshToken == Undefined
            IN ReplyTokens(tokens.db, user, tokens.accessToken, newRefreshToken)

-----------------------------------------------------------------------------
(* Requests a client can send *)

Usernames == {Absent, " ", "alice", "Alice", "bob"}
Emails == {Absent, "a@x.com", "A@X.com", "b@x.com"}
FullNames == {Absent, " ", "Alice A"}
RegisterPasswords == {Absent, " ", "p1"}
LoginPasswords == {Absent, "p1", "p2"}

\* bodies of a change-password request: oldPassword, and the new password
\* under the key `newPassword` or under the key `newPassowrd`
NewPasswords == {"p1", "p2"}
ChangePasswordBodies ==
    {[oldPassword |-> old, newPassword |-> new, newPassowrd |-> typo] :
        old \in LoginPasswords,
        new \in NewPasswords \cup {Absent},
        typo \in NewPasswords \cup {Absent}}

\* the ids a document can have: one per username the store can hold
UserIds == 1..Cardinality({castUsername(u) : u \in Usernames} \ {Absent, ""})

\* credentials a request can carry at time t: none, the string "undefined"
\* (what a cookie set from an undefined value holds), and tokens signed under
\* either secret for any subject at any time up to t
Credentials(t) ==
    {Undefined, StrUndefined}
        \cup {jwtSign(u, s, i) : u \in UserIds, s \in Secrets, i \in 0..t}

\* the two places a request carries a token in (cookie first, then the body
\* field or the Authorization header): every first value with no or a malformed
\* second one, every second value behind no or a malformed cookie, and two
\* access tokens signed at t
CredentialPairs(t) ==
    {<<c, b>> \in Credentials(t) \X Credentials(t) :
        c \in {Undefined, StrUndefined} \/ b \in {Undefined, StrUndefined}}
        \cup {<<jwtSign(u, ACCESS_TOKEN_SECRET, t), jwtSign(v, ACCESS_TOKEN_SECRET, t)>> :
                    u \in UserIds, v \in UserIds}

Idle == [op |-> "none"]
NoResponse ==
    [op |-> "none", status |-> 0, error |-> "none", uid |-> 0, user |-> NoUser,
     body |-> "none", temp |-> {},
     bodyAccessToken |-> Undefined, bodyRefreshToken |-> Undefined,
     cookieAccessToken |-> Undefined, cookieRefreshToken |-> Undefined,
     cookieOptions |-> {}, cleared |-> NoCookies, usersBefore |-> 0, before |-> <<>>]
NoSession ==
    [uid |-> 0, refreshToken |-> Undefined, accessToken |-> Undefined, phase |-> "none"]

\* the phases of a session: no Refresh has presented the refresh token the
\* Login returned ("fresh"), one has ("replayed"), more have ("replayedAgain");
\* "loggedOut" once a Logout of that user completed
NextPhase(phase) ==
    CASE phase = "fresh" -> "replayed"
      [] phase = "replayed" -> "replayedAgain"
      [] OTHER -> phase

\* the response as the client sees it, with the collection as it was before
\* the request and the number of documents in it
Answer(op, out) ==
    [op |-> op, status |-> out.status, error |-> out.error, uid |-> out.uid,
     user |-> out.user, body |-> out.body, temp |-> out.temp,
     bodyAccessToken |-> out.bodyAccessToken, bodyRefreshToken |-> out.bodyRefreshToken,
     cookieAccessToken |-> out.cookieAccessToken,
     cookieRefreshToken |-> out.cookieRefreshToken,
     cookieOptions |-> out.cookieOptions, cleared |-> out.cleared,
     usersBefore |-> Len(db), before |-> db]

\* the requests the server handles concurrently, by the slot each is handled in
Clients == {1, 2}

\* the handler of a request: the route (op), the await it is at (pc), its
\* locals, and its answer once pc is "done".  An answer stays on record until
\* a request that arrives later takes the slot or finds another in flight, so
\* two handlers on record at once ran concurrently
NoBody == [username |-> Absent, email |-> Absent, password |-> Absent]
IdleCall ==
    [op |-> "none", pc |-> "idle", body |-> NoBody, token |-> Undefined,
     user |-> 0, loaded |-> Undefined,
     accessToken |-> Undefined, refreshToken |-> Undefined,
     status |-> 0, error |-> "none", bodyRefreshToken |-> Undefined]

-----------------------------------------------------------------------------
(* The state machine *)

Init ==
    /\ db = <<>>
    /\ now = 0
    /\ req = Idle
    /\ resp = NoResponse
    /\ session = NoSession
    /\ calls = [c \in Clients |-> IdleCall]

\* the parts of a Register request that are missing, blank or fail to upload
Defects(body, files) ==
    {f \in {"fullName", "email", "username", "password"} : body[f] \in {Absent, "", " "}}
        \cup (IF files.avatar = "uploads" THEN {} ELSE {"avatar"})

\* POST /register, with req.files one of fileSet
RegisterWith(fileSet) ==
    /\ req = Idle
    /\ \E fullName \in FullNames, email \in Emails, username \in Usernames,
       password \in RegisterPasswords, files \in fileSet :
        LET body == [fullName |-> fullName, email |-> email,
                     username |-> username, password |-> password]
            out == registerUser(db, body, files, now)
        IN /\ Cardinality(Defects(body, files)) <= MaxDefects
           /\ db' = out.db
           /\ req' = [op |-> "register", body |-> body, files |-> files]
           /\ resp' = Answer("register", out)
           /\ UNCHANGED <<now, session, calls>>

\* POST /register without a coverImage part
Register == RegisterWith(Files)

\* POST /login
Login ==
    /\ req = Idle
    /\ \E username \in Usernames, email \in Emails, password \in LoginPasswords :
        LET body == [username |-> username, email |-> email, password |-> password]
            out == loginUser(db, body, now)
        IN /\ db' = out.db
           /\ req' = [op |-> "login", body |-> body]
           /\ resp' = Answer("login", out)
           /\ session' =
                IF out.status = 200
                THEN [uid |-> out.uid,
                      refreshToken |-> out.cookieRefreshToken,
                      accessToken |-> out.cookieAccessToken,
                      phase |-> "fresh"]
                ELSE session
           /\ UNCHANGED <<now, calls>>

\* POST /logout: verifyJWT, then logoutUser
Logout ==
    /\ req = Idle
    /\ \E pair \in CredentialPairs(now), strips \in BOOLEAN :
        LET gate == verifyJWT(db, pair[1], pair[2], now)
            out == IF gate.err # NoError THEN Fail(db, gate.err)
                   ELSE logoutUser(db, gate.user, strips, now)
        IN /\ db' = out.db
           /\ req' = [op |-> "logout", cookie |-> pair[1], authorization |-> pair[2],
                       user |-> gate.reqUser]
           /\ resp' = Answer("logout", out)
           /\ session' =
                IF out.status = 200 /\ out.uid = session.uid
                THEN [session EXCEPT !.phase = "loggedOut"]
                ELSE session
           /\ UNCHANGED <<now, calls>>

\* POST /refresh-token
Refresh ==
    /\ req = Idle
    /\ \E pair \in CredentialPairs(now) :
        LET out == refershAccessToken(db, pair[1], pair[2], now)
        IN /\ db' = out.db
           /\ req' = [op |-> "refresh", cookie |-> pair[1], bodyToken |-> pair[2]]
           /\ resp' = Answer("refresh", out)
           /\ session' =
                IF session.uid # 0 /\ JsOr(pair[1], pair[2]) = session.refreshToken
                THEN [session EXCEPT !.phase = NextPhase(@)]
                ELSE session
           /\ UNCHANGED <<now, calls>>

\* POST /change-password, with no cookie or with an access token signed now:
\* the router has no such route
PostChangePassword ==
    /\ req = Idle
    /\ \E cookie \in {Undefined} \cup {jwtSign(u, ACCESS_TOKEN_SECRET, now) : u \in UserIds} :
        LET out == notFound(db)
        IN /\ "/change-password" \notin Routes
           /\ db' = out.db
           /\ req' = [op |-> "postChangePassword", cookie |-> cookie,
                       authorization |-> Undefined]
           /\ resp' = Answer("postChangePassword", out)
           /\ UNCHANGED <<now, session, calls>>

\* time passes between two requests
Tick ==
    /\ req = Idle
    /\ now < MaxTime
    /\ now' = now + 1
    /\ UNCHANGED <<db, req, resp, session, calls>>

\* the response is sent and the request is over
Deliver ==
    /\ req # Idle
    /\ req' = Idle
    /\ resp' = NoResponse
    /\ UNCHANGED <<db, now, session, calls>>

Next == Register \/ Login \/ Logout \/ Refresh \/ PostChangePassword \/ Tick \/ Deliver

Spec == Init /\ [][Next]_vars

\* changeCurrentPassword applied to a request that carries req.user, as
\* verifyJWT leaves it; the controller exports the handler
ChangePassword ==
    /\ req = Idle
    /\ \E userId \in 1..Len(db), body \in ChangePasswordBodies :
        LET out == changeCurrentPassword(db, userId, body, now)
        IN /\ db' = out.db
           /\ req' = [op |-> "changePassword", user |-> userId, body |-> body]
           /\ resp' = Answer("changePassword", out)
           /\ UNCHANGED <<now, session, calls>>

\* the handlers that read or write the password
PasswordNext == Register \/ Login \/ ChangePassword \/ Tick \/ Deliver

PasswordSpec == Init /\ [][PasswordNext]_vars

\* the handlers that answer with a user object and that no route of the
\* router leads to, each called as exported for a registered user
GetCurrentUser ==
    /\ req = Idle
    /\ \E userId \in 1..Len(db) :
        LET out == getCurrentUser(db, userId)
        IN /\ db' = out.db
           /\ req' = [op |-> "getCurrentUser", user |-> userId]
           /\ resp' = Answer("getCurrentUser", out)
           /\ UNCHANGED <<now, session, calls>>

UpdateAccountDetails ==
    /\ req = Idle
    /\ \E userId \in 1..Len(db), fullName \in FullNames, email \in Emails,
          circular \in BOOLEAN :
        LET body == [fullName |-> fullName, email |-> email]
            out == updateAccountDetails(db, userId, body, circular)
        IN /\ db' = out.db
           /\ req' = [op |-> "updateAccountDetails", user |-> userId, body |-> body]
           /\ resp' = Answer("updateAccountDetails", out)
           /\ UNCHANGED <<now, session, calls>>

UpdateAvatar ==
    /\ req = Idle
    /\ \E userId \in 1..Len(db), file \in Parts :
        LET out == updateAvatar(db, userId, file, now)
        IN /\ db' = out.db
           /\ req' = [op |-> "updateAvatar", user |-> userId, file |-> file]
           /\ resp' = Answer("updateAvatar", out)
           /\ UNCHANGED <<now, session, calls>>

UpdateCoverImage ==
    /\ req = Idle
    /\ \E userId \in 1..Len(db), file \in Parts :
        LET out == updateCoverImage(db, userId, file, now)
        IN /\ db' = out.db
           /\ req' = [op |-> "updateCoverImage", user |-> userId, file |-> file]
           /\ resp' = Answer("updateCoverImage", out)
           /\ UNCHANGED <<now, session, calls>>

AccountNext ==
    \/ Register \/ Login \/ GetCurrentUser \/ UpdateAccountDetails
    \/ UpdateAvatar \/ UpdateCoverImage \/ Tick \/ Deliver

AccountSpec == Init /\ [][AccountNext]_vars

\* POST /register with any file parts
RegisterUpload == RegisterWith(UploadFiles)

\* the requests that upload files
UploadNext == RegisterUpload \/ Tick \/ Deliver

UploadSpec == Init /\ [][UploadNext]_vars

-----------------------------------------------------------------------------
(* Concurrent requests.  Node runs a handler without interruption from one   *)
(* await to the next, and MongoDB applies one operation at a time: a step is *)
(* the arrival of a request, with the code up to its first query, or one      *)
(* database operation of a handler, with the code up to the next.             *)

\* Register bodies that collide in the username (up to case), in the email, or
\* in neither
RaceRegisterBodies ==
    {[fullName |-> "Alice A", email |-> pair[2], username |-> pair[1], password |-> "p1"] :
        pair \in {<<"alice", "a@x.com">>, <<"Alice", "b@x.com">>, <<"bob", "a@x.com">>}}
RaceLoginBodies ==
    {[username |-> pair[1], email |-> Absent, password |-> pair[2]] :
        pair \in {<<"alice", "p1">>, <<"alice", "p2">>}}
\* req.files of the Register requests: an avatar that uploads
RaceFiles == [defined |-> TRUE, avatar |-> "uploads", coverImage |-> "absent"]

\* the credential a concurrent request carries in its cookie: none, the
\* string "undefined" (what a cookie set from an undefined value holds), or a
\* token signed now under the secret of its route
RaceCredentials(secret, t) ==
    {Undefined, StrUndefined} \cup {jwtSign(u, secret, t) : u \in UserIds}

InFlight(call) == call.pc \notin {"idle", "done"}

\* a new request is handled in the first slot that has no handler in flight
Free(c) == ~InFlight(calls[c]) /\ \A d \in Clients : d < c => InFlight(calls[d])

\* the handlers once the request arriving in slot c has run to `call`
Begin(c, call) ==
    [d \in Clients |-> IF d = c THEN call ELSE IF InFlight(calls[d]) THEN calls[d] ELSE IdleCall]

\* the handler throws: asyncHandler passes err to next, Express answers
Throw(call, err) ==
    [call EXCEPT !.pc = "done", !.status = errorStatus(err), !.error = err.name]

\* POST /register arrives: registerUser up to `await User.findOne(...)`
RegisterArrive(c) ==
    /\ Free(c)
    /\ \E body \in RaceRegisterBodies :
        LET call == [IdleCall EXCEPT !.op = "register", !.body = body]
        IN calls' = Begin(c, IF someBlank(body) THEN Throw(call, ApiError(400))
                             ELSE [call EXCEPT !.pc = "findOne"])
    /\ UNCHANGED <<db, now, req, resp, session>>

\* User.findOne answers and, with no user found, registerUser runs on to
\* `await User.create(...)`: the uploads touch no document
RegisterFindOne(c) ==
    /\ calls[c].op = "register" /\ calls[c].pc = "findOne"
    /\ LET call == calls[c]
           avatar == uploadOnCloudinary("avatar", RaceFiles.avatar = "uploads", multer(RaceFiles))
       IN calls' = [calls EXCEPT ![c] =
            IF findOne(db, call.body.username, call.body.email) # 0
            THEN Throw(call, ApiError(409))
            ELSE IF avatar.response = Null THEN Throw(call, ApiError(400))
            ELSE [call EXCEPT !.pc = "create"]]
    /\ UNCHANGED <<db, now, req, resp, session>>

\* `await User.create(...)`, `await User.findById(user._id).select(...)` and the answer
RegisterCreate(c) ==
    /\ calls[c].pc = "create"
    /\ LET made == create(db, createFields(calls[c].body, "avatar", Null), now)
       IN /\ db' = made.db
          /\ calls' = [calls EXCEPT ![c] =
                IF made.err # NoError THEN Throw(@, made.err)
                ELSE [@ EXCEPT !.pc = "done", !.status = 201, !.user = Len(made.db)]]
    /\ UNCHANGED <<now, req, resp, session>>

\* POST /login arrives: loginUser up to `await User.findOne(...)`
LoginArrive(c) ==
    /\ Free(c)
    /\ \E body \in RaceLoginBodies :
        LET call == [IdleCall EXCEPT !.op = "login", !.body = body]
        IN calls' = Begin(c, IF ~(TruthyText(body.username) \/ TruthyText(body.email))
                             THEN Throw(call, ApiError(400))
                             ELSE [call EXCEPT !.pc = "findOne"])
    /\ UNCHANGED <<db, now, req, resp, session>>

\* User.findOne answers, then `await user.isPasswordCorrect(password)` on the
\* document it returned
LoginFindOne(c) ==
    /\ calls[c].op = "login" /\ calls[c].pc = "findOne"
    /\ LET call == calls[c]
           user == findOne(db, call.body.username, call.body.email)
       IN calls' = [calls EXCEPT ![c] =
            IF user = 0 THEN Throw(call, ApiError(404))
            ELSE IF call.body.password = Absent THEN Throw(call, BcryptError)
            ELSE IF ~isPasswordCorrect(db[user], call.body.password)
                 THEN Throw(call, ApiError(401))
            ELSE [call EXCEPT !.pc = "generate", !.user = user]]
    /\ UNCHANGED <<db, now, req, resp, session>>

\* POST /refresh-token arrives: refershAccessToken up to
\* `await User.findById(decodedToken?._id)`
RefreshArrive(c) ==
    /\ Free(c)
    /\ \E cookie \in RaceCredentials(REFRESH_TOKEN_SECRET, now) :
        LET call == [IdleCall EXCEPT !.op = "refresh", !.token = cookie]
            incomingRefreshToken == JsOr(cookie, Undefined)
            decodedToken == jwtVerify(incomingRefreshToken, REFRESH_TOKEN_SECRET, now)
        IN calls' = Begin(c,
                IF ~Truthy(incomingRefreshToken) THEN Throw(call, ApiError(401))
                ELSE IF ~decodedToken.ok THEN Throw(call, refreshCatch(decodedToken.error))
                ELSE [call EXCEPT !.pc = "findById", !.user = decodedToken._id])
    /\ UNCHANGED <<db, now, req, resp, session>>

\* User.findById answers, and the token presented is compared with the
\* refreshToken of the document it returned
RefreshFindById(c) ==
    /\ calls[c].op = "refresh" /\ calls[c].pc = "findById"
    /\ LET call == calls[c]
           user == findById(db, call.user)
       IN calls' = [calls EXCEPT ![c] =
            IF user = 0 THEN Throw([call EXCEPT !.user = 0], refreshCatch(ApiError(401)))
            ELSE IF call.token # db[user].refreshToken
                 THEN Throw(call, refreshCatch(ReferenceError))
            ELSE [call EXCEPT !.pc = "generate"]]
    /\ UNCHANGED <<db, now, req, resp, session>>

\* generateAccessAndRefreshTokens: `await User.findById(userId)`, the two
\* tokens, and `user.refreshToken = refreshToken` on the document loaded
GenerateFindById(c) ==
    /\ calls[c].pc = "generate"
    /\ LET call == calls[c]
       IN calls' = [calls EXCEPT ![c] =
            [call EXCEPT !.pc = "save",
                         !.loaded = db[call.user].refreshToken,
                         !.refreshToken = generateRefershToken(call.user, now),
                         !.accessToken = generateAccessToken(call.user, now)]]
    /\ UNCHANGED <<db, now, req, resp, session>>

\* `await user.save({validateBeforeSave: false})`: the update $sets the paths
\* modified since the document was loaded, whatever the collection holds by
\* now.  refershAccessToken then answers, loginUser goes on to its findById
GenerateSave(c) ==
    /\ calls[c].pc = "save"
    /\ LET call == calls[c]
           hooked == preSave(db[call.user].password, FALSE)
       IN /\ db' = IF /\ call.loaded = call.refreshToken
                      /\ db[call.user].password = hooked.password
                   THEN db
                   ELSE [db EXCEPT ![call.user].refreshToken = call.refreshToken,
                                   ![call.user].password = hooked.password,
                                   ![call.user].updatedAt = now]
          /\ calls' = [calls EXCEPT ![c] =
                IF call.op = "login" THEN [call EXCEPT !.pc = "select"]
                \* const {accessToken, newRefreshToken} = ...: undefined
                ELSE [call EXCEPT !.pc = "done", !.status = 200,
                                  !.bodyRefreshToken = Undefined]]
          /\ session' =
                IF call.op = "login"
                THEN [uid |-> call.user, refreshToken |-> JsString(call.refreshToken),
                      accessToken |-> JsString(call.accessToken), phase |-> "fresh"]
                ELSE session
    /\ UNCHANGED <<now, req, resp>>

\* loginUser: `await User.findById(user._id).select(...)` and the answer
LoginFindById(c) ==
    /\ calls[c].pc = "select"
    /\ LET call == calls[c]
       IN calls' = [calls EXCEPT ![c] =
            [call EXCEPT !.pc = "done", !.status = 200,
                         !.bodyRefreshToken = call.refreshToken]]
    /\ UNCHANGED <<db, now, req, resp, session>>

\* POST /logout arrives: verifyJWT up to `await User.findById(decodeToken._id)`
LogoutArrive(c) ==
    /\ Free(c)
    /\ \E cookie \in RaceCredentials(ACCESS_TOKEN_SECRET, now) :
        LET call == [IdleCall EXCEPT !.op = "logout", !.token = cookie]
            token == JsOr(cookie, Undefined)
            decodeToken == jwtVerify(token, ACCESS_TOKEN_SECRET, now)
        IN calls' = Begin(c,
                IF ~Truthy(token) \/ ~decodeToken.ok THEN Throw(call, ApiError(401))
                ELSE [call EXCEPT !.pc = "findById", !.user = decodeToken._id])
    /\ UNCHANGED <<db, now, req, resp, session>>

\* User.findById answers: verifyJWT sets req.user and calls next(), logoutUser
\* runs up to `await User.findByIdAndUpdate(...)`
LogoutVerifyJWT(c) ==
    /\ calls[c].op = "logout" /\ calls[c].pc = "findById"
    /\ LET call == calls[c]
       IN calls' = [calls EXCEPT ![c] =
            IF findById(db, call.user) = 0 THEN Throw([call EXCEPT !.user = 0], ApiError(401))
            ELSE [call EXCEPT !.pc = "update"]]
    /\ UNCHANGED <<db, now, req, resp, session>>

\* logoutUser: `await User.findByIdAndUpdate(...)` and the answer
LogoutFindByIdAndUpdate(c) ==
    /\ calls[c].pc = "update"
    /\ \E strips \in BOOLEAN :
        db' = unsetRefreshToken(db, calls[c].user, strips, now)
    /\ calls' = [calls EXCEPT ![c] = [@ EXCEPT !.pc = "done", !.status = 200]]
    /\ session' = IF calls[c].user = session.uid
                  THEN [session EXCEPT !.phase = "loggedOut"]
                  ELSE session
    /\ UNCHANGED <<now, req, resp>>

\* time passes while requests are in flight
RaceTick ==
    /\ now < MaxRaceTime
    /\ now' = now + 1
    /\ UNCHANGED <<db, req, resp, session, calls>>

RaceNext ==
    \/ \E c \in Clients :
        \/ RegisterArrive(c) \/ RegisterFindOne(c) \/ RegisterCreate(c)
        \/ LoginArrive(c) \/ LoginFindOne(c) \/ LoginFindById(c)
        \/ RefreshArrive(c) \/ RefreshFindById(c)
        \/ GenerateFindById(c) \/ GenerateSave(c)
        \/ LogoutArrive(c) \/ LogoutVerifyJWT(c) \/ LogoutFindByIdAndUpdate(c)
    \/ RaceTick

RaceSpec == Init /\ [][RaceNext]_vars

-----------------------------------------------------------------------------
(* Properties *)

\* the token a Refresh request presents: the cookie, else the body field
Presented == JsOr(req.cookie, req.bodyToken)

\* a token that is still inside its lifetime (a value that is no token has none)
Unexpired(token) == IsJwt(token) => now < token.iat + Expiry(token.secret)

\* the response carries a token pair in its body
ReturnsPair == IsJwt(resp.bodyAccessToken) /\ IsJwt(resp.bodyRefreshToken)

\* the response carries no token at all
ReturnsNoToken ==
    /\ resp.bodyAccessToken = Undefined /\ resp.bodyRefreshToken = Undefined
    /\ resp.cookieAccessToken = Undefined /\ resp.cookieRefreshToken = Undefined

\* this request is a Refresh replaying the refresh token the latest Login returned
ReplaysLoginToken ==
    /\ resp.op = "refresh"
    /\ session.uid # 0
    /\ Presented = session.refreshToken
    /\ Unexpired(session.refreshToken)

\* C1: the refresh token a Login returned, replayed through Refresh, succeeds
\* exactly once: the first Refresh presenting it answers 200 with a new pair,
\* a second one presenting it after that rotation answers 401
C1_LoginTokenRefreshesExactlyOnce ==
    ReplaysLoginToken =>
        /\ session.phase = "replayed" => (resp.status = 200 /\ ReturnsPair)
        /\ session.phase = "replayedAgain" => resp.status = 401

\* C2: after a Logout, a Refresh presenting the refresh token of the session
\* that was logged out answers 401 and issues no token
C2_RefreshAfterLogoutIs401 ==
    (ReplaysLoginToken /\ session.phase = "loggedOut") =>
        (resp.status = 401 /\ ReturnsNoToken)

C4_LoginReturnsPersistedPair ==
    (resp.op = "login" /\ resp.status = 200) =>
        /\ ReturnsPair
        /\ resp.bodyRefreshToken = db[resp.uid].refreshToken

\* C5: the access token a successful Login returned, presented to the Auth Gate
\* (here: of POST /logout) before it expires, is accepted as that user
C5_ReturnedAccessTokenIsAccepted ==
    (/\ resp.op = "logout"
     /\ session.uid # 0
     /\ JsOr(req.cookie, req.authorization) = session.accessToken
     /\ Unexpired(session.accessToken))
        => (resp.status = 200 /\ resp.uid = session.uid)

\* C6: the Refresh that redeems a session's refresh token issues a brand-new
\* pair, persists its refresh token and returns it in the body and the cookie
C6_RefreshReturnsPersistedNewPair ==
    (ReplaysLoginToken /\ session.phase = "replayed") =>
        /\ ReturnsPair
        /\ resp.bodyRefreshToken # session.refreshToken
        /\ resp.bodyRefreshToken = db[session.uid].refreshToken
        /\ resp.cookieRefreshToken = resp.bodyRefreshToken

\* C7: every failing Refresh (no token, bad signature, expired, unknown
\* subject, not the persisted token) is answered with 401
C7_FailingRefreshIs401 ==
    (resp.op = "refresh" /\ resp.status # 200) => resp.status = 401

\* a text field the request supplies
Supplied(s) == s \notin {Absent, ""}

\* the documents whose username or email, in the lowercase form the store
\* keeps, is the one the request body names, among the first n documents
Named(body, n) ==
    {i \in 1..n :
        \/ (body.username # Absent /\ db[i].username = toLowerCase(body.username))
        \/ (body.email # Absent /\ db[i].email = toLowerCase(body.email))}

\* the password of the request verifies against the first document it names
PasswordVerifies ==
    LET named == Named(req.body, Len(db))
        user == CHOOSE i \in named : \A j \in named : i <= j
    IN req.body.password # Absent /\ db[user].password = bcryptHash(req.body.password)

\* C8: Login answers 400 when neither username nor email is supplied, 404 when
\* no user matches, 401 when a user matches and the password does not verify,
\* and succeeds with only a username or only an email and the correct password
C8_LoginStatuses ==
    resp.op = "login" =>
        LET body == req.body
            identified == Supplied(body.username) \/ Supplied(body.email)
            named == Named(body, Len(db))
        IN /\ ~identified => resp.status = 400
           /\ (identified /\ named = {}) => resp.status = 404
           /\ (identified /\ named # {} /\ ~PasswordVerifies) => resp.status = 401
           /\ (/\ Supplied(body.username) # Supplied(body.email)
               /\ named # {} /\ PasswordVerifies) => resp.status = 200

\* the fields of the Register body that are missing, and those that are blank
Missing == {f \in {"fullName", "email", "username", "password"} : req.body[f] = Absent}
Blank == {f \in {"fullName", "email", "username", "password"} : req.body[f] \in {"", " "}}

\* no document was created by the request just answered
CreatedNoUser == Len(db) = resp.usersBefore

\* C9: Register answers 400 and creates no user whenever one of fullName,
\* email, username, password is missing or blank
C9_MissingOrBlankIs400 ==
    (resp.op = "register" /\ (Missing # {} \/ Blank # {})) =>
        (resp.status = 400 /\ CreatedNoUser)

\* C10 as stated: Register answers 409 and creates no user whenever a user with
\* the same username or email (in lowercase form) already exists
C10_DuplicateIs409 ==
    (resp.op = "register" /\ Named(req.body, resp.usersBefore) # {}) =>
        (resp.status = 409 /\ CreatedNoUser)

\* C10 as amended: Register answers 409 and creates no user whenever no field
\* of the body is blank (a blank field is answered 400 first) and a user with
\* the same username or email (in lowercase form) already exists
C10_DuplicateIs409UnlessBlank ==
    (resp.op = "register" /\ Blank = {} /\ Named(req.body, resp.usersBefore) # {}) =>
        (resp.status = 409 /\ CreatedNoUser)

\* a Register is refused with 409 for a username that differs from the stored
\* one in case only, its email being new
C10_Witness ==
    /\ resp.op = "register" /\ resp.status = 409 /\ CreatedNoUser
    /\ Blank = {}
    /\ req.body.username = "Alice"
    /\ \A i \in 1..Len(db) : db[i].email # toLowerCase(req.body.email)

\* C11: a Register that succeeds answers 201, adds exactly one document, whose
\* refresh-token field is empty, and returns that document without its
\* password and refreshToken paths
C11_RegisterCreatesAndReturnsSanitizedUser ==
    (resp.op = "register" /\ resp.status < 400) =>
        /\ resp.status = 201
        /\ Len(db) = resp.usersBefore + 1
        /\ resp.uid = Len(db)
        /\ ~Truthy(db[Len(db)].refreshToken)
        /\ DOMAIN resp.user = DOMAIN db[Len(db)] \ {"password", "refreshToken"}
        /\ \A f \in DOMAIN resp.user : resp.user[f] = db[Len(db)][f]

\* a second user has just been registered
C11_Witness ==
    /\ resp.op = "register" /\ resp.status = 201
    /\ resp.usersBefore = 1 /\ Len(db) = 2

\* the plaintext passwords a client can submit
Plaintexts == (RegisterPasswords \cup LoginPasswords \cup NewPasswords) \ {Absent}

\* the answer a Login of user u with password p would get now
LoginAs(u, p) ==
    loginUser(db, [username |-> db[u].username, email |-> Absent, password |-> p], now)

\* C12: after any sequence of Register and Change-password operations, no
\* stored password equals a plaintext a client submitted: the field holds the
\* output of bcrypt.hash only
C12_PasswordIsNeverPlaintext ==
    \A i \in 1..Len(db) :
        /\ db[i].password \notin Plaintexts
        /\ \E p \in Plaintexts : db[i].password = bcryptHash(p)

\* a Change password has replaced the hash of a registered user
C12_Witness ==
    /\ resp.op = "changePassword" /\ resp.status = 200
    /\ db[req.user].password # resp.before[req.user].password

\* C13: a Change password whose oldPassword verifies and whose body carries
\* newPassword succeeds and stores the hash of newPassword: a Login with
\* newPassword then succeeds, and one with a different oldPassword answers 401
C13_ChangePasswordStoresNewHash ==
    (/\ resp.op = "changePassword"
     /\ req.body.oldPassword # Absent
     /\ isPasswordCorrect(resp.before[req.user], req.body.oldPassword)
     /\ req.body.newPassword # Absent)
        => /\ resp.status = 200
           /\ db[req.user].password = bcryptHash(req.body.newPassword)
           /\ LoginAs(req.user, req.body.newPassword).status = 200
           /\ req.body.oldPassword # req.body.newPassword
                => LoginAs(req.user, req.body.oldPassword).status = 401

ValidAccess(token, d, t) ==
    /\ IsJwt(token)
    /\ token.secret = ACCESS_TOKEN_SECRET
    /\ t < token.iat + AccessExpiry
    /\ token.sub \in 1..Len(d)

\* the request just answered went through the Auth Gate
Gated == resp.op = "logout"

\* the downstream handler of the request just answered did not run
HandlerDidNotRun == db = resp.before /\ resp.cleared = {}

\* C15: the Auth Gate passes a request on exactly when it carries a token that
\* verifies against the access secret and whose subject exists; otherwise it
\* answers 401 and the handler does not run.  The identity it attaches is the
\* subject's document without password and refreshToken
C15_GatePassesIffValidToken ==
    Gated =>
        LET token == IF req.cookie # Undefined THEN req.cookie ELSE req.authorization
        IN IF ValidAccess(token, resp.before, now)
           THEN /\ resp.status = 200
                /\ resp.uid = token.sub
                /\ DOMAIN req.user = DOMAIN resp.before[token.sub] \ {"password", "refreshToken"}
                /\ \A f \in DOMAIN req.user : req.user[f] = resp.before[token.sub][f]
           ELSE /\ resp.status = 401
                /\ req.user = NoUser
                /\ HandlerDidNotRun

\* the gate let the second user through on a token from the Authorization header
C15_Witness ==
    /\ Gated /\ resp.status = 200 /\ resp.uid = 2
    /\ req.cookie = Undefined /\ IsJwt(req.authorization)
    /\ "username" \in DOMAIN req.user

\* C16: when a request carries both an accessToken cookie and an Authorization
\* header, the cookie alone decides; the header decides when there is no cookie
C16_CookieBeforeHeader ==
    Gated =>
        /\ Truthy(req.cookie) =>
            /\ resp.status = 200 <=> ValidAccess(req.cookie, resp.before, now)
            /\ resp.status = 200 => resp.uid = req.cookie.sub
        /\ ~Truthy(req.cookie) =>
            /\ resp.status = 200 <=> ValidAccess(req.authorization, resp.before, now)
            /\ resp.status = 200 => resp.uid = req.authorization.sub

\* a request with valid tokens of two different users was served as the user
\* of its cookie
C16_Witness ==
    /\ Gated /\ resp.status = 200
    /\ ValidAccess(req.cookie, resp.before, now)
    /\ ValidAccess(req.authorization, resp.before, now)
    /\ req.cookie.sub # req.authorization.sub
    /\ resp.uid = req.cookie.sub

\* C17: a refresh token presented to the Auth Gate is answered 401, and an
\* access token presented to Refresh is answered 401
C17_TokenClassesAreNotInterchangeable ==
    /\ (/\ Gated
        /\ IsJwt(JsOr(req.cookie, req.authorization))
        /\ JsOr(req.cookie, req.authorization).secret = REFRESH_TOKEN_SECRET)
            => resp.status = 401
    /\ (/\ resp.op = "refresh"
        /\ IsJwt(Presented)
        /\ Presented.secret = ACCESS_TOKEN_SECRET)
            => resp.status = 401

\* the Logout request just answered, sent again at time t
SecondLogout(t, strips) ==
    LET gate == verifyJWT(db, req.cookie, req.authorization, t)
    IN IF gate.err # NoError THEN Fail(db, gate.err)
       ELSE logoutUser(db, gate.user, strips, t)

\* the collection d with the updatedAt stamps masked
WithoutTimestamps(d) == [i \in 1..Len(d) |-> [d[i] EXCEPT !.updatedAt = 0]]

\* the times up to MaxTime at which the token of the request is still valid
LaterWhileValid ==
    {t \in now..MaxTime : ValidAccess(JsOr(req.cookie, req.authorization), db, t)}

\* C18 as stated: a Logout called again with the same valid access token
\* answers 200 again and leaves the store as the first call left it
C18_LogoutTwiceSameStore ==
    (resp.op = "logout" /\ resp.status = 200) =>
        \A t \in LaterWhileValid, strips \in BOOLEAN :
            /\ SecondLogout(t, strips).status = 200
            /\ SecondLogout(t, strips).db = db

\* C18 as amended: a Logout called again with the same valid access token
\* answers 200 again, clears both cookies again, and leaves the store as the
\* first call left it but for the updatedAt stamp of the caller's document
C18_LogoutTwiceSameStoreButTimestamp ==
    (resp.op = "logout" /\ resp.status = 200) =>
        \A t \in LaterWhileValid, strips \in BOOLEAN :
            /\ SecondLogout(t, strips).status = 200
            /\ SecondLogout(t, strips).cleared = resp.cleared
            /\ WithoutTimestamps(SecondLogout(t, strips).db) = WithoutTimestamps(db)
            /\ \A i \in 1..Len(db) :
                i # resp.uid => SecondLogout(t, strips).db[i] = db[i]

\* a Logout succeeded with a token that is still valid one tick later
C18_Witness ==
    /\ resp.op = "logout" /\ resp.status = 200
    /\ now + 1 \in LaterWhileValid
    /\ Len(db) = 2

\* C19: POST /logout and POST /change-password run their handler only behind
\* the Auth Gate: with a valid access token the handler runs, without one the
\* answer is 401 and no stored field changes
C19_LogoutAndChangePasswordAreGated ==
    resp.op \in {"logout", "postChangePassword"} =>
        IF ValidAccess(JsOr(req.cookie, req.authorization), resp.before, now)
        THEN resp.status # 404
        ELSE resp.status = 401 /\ db = resp.before

\* the refresh tokens Refresh would accept for user u now
Accepted(u) ==
    {c \in Credentials(now) :
        LET out == refershAccessToken(db, c, Undefined, now)
        IN out.status = 200 /\ out.uid = u}

C25_IssuedTokensRoundTrip ==
    (resp.op = "login" /\ resp.status = 200) =>
        LET access == resp.bodyAccessToken
            refresh == resp.bodyRefreshToken
        IN /\ jwtVerify(access, ACCESS_TOKEN_SECRET, now).ok
           /\ jwtVerify(access, ACCESS_TOKEN_SECRET, now)._id = resp.uid
           /\ jwtVerify(refresh, REFRESH_TOKEN_SECRET, now).ok
           /\ jwtVerify(refresh, REFRESH_TOKEN_SECRET, now)._id = resp.uid
           /\ jwtVerify(access, REFRESH_TOKEN_SECRET, now).error = "JsonWebTokenError"
           /\ jwtVerify(refresh, ACCESS_TOKEN_SECRET, now).error = "JsonWebTokenError"

\* the request just answered failed with one of the statuses the handler
\* itself refuses a request with
RefusedByHandler ==
    \/ resp.op = "login" /\ resp.status \in {400, 404, 401}
    \/ resp.op = "refresh" /\ resp.status = 401
    \/ resp.op = "register" /\ resp.status \in {400, 409}

\* C29: a Login answered 400, 404 or 401, a Refresh answered 401 and a Register
\* answered 400 or 409 leave every user document as it was before the request
\* and issue no token
C29_FailedOperationChangesNothing ==
    RefusedByHandler => (db = resp.before /\ ReturnsNoToken)

\* a Login with a wrong password was refused while two users are stored
C29_Witness ==
    /\ resp.op = "login" /\ resp.status = 401
    /\ Len(db) = 2 /\ db = resp.before

\* the request just answered ended in an error raised by its handler or by
\* the Auth Gate
RaisedError == resp.op # "none" /\ resp.error \notin {"none", "NotFound"}

\* C23: every error raised inside a handler or the Auth Gate is answered at
\* the request boundary with the envelope {success: false, statusCode,
\* message}, under the status code of the error, and under 500 when the error
\* carries none
C23_ErrorsAnsweredWithEnvelope ==
    RaisedError =>
        /\ resp.body = "{success:false,statusCode,message}"
        /\ resp.error = "ApiError" => resp.status \in {400, 401, 404, 409}
        /\ resp.error # "ApiError" => resp.status = 500

\* the Register just answered called uploadOnCloudinary for its file parts
ReachedUpload ==
    /\ resp.op = "register"
    /\ ~someBlank(req.body)
    /\ findOne(resp.before, req.body.username, req.body.email) = 0
    /\ req.files.avatar # "absent"

\* C24: once uploadOnCloudinary has returned for a local path, whether the
\* upload succeeded or failed, the temporary file is gone; for no path it
\* returns null and leaves the file system as it is
C24_UploadLeavesNoTemporaryFile ==
    /\ ReachedUpload => resp.temp = {}
    /\ \A fs \in SUBSET {"avatar", "coverImage"}, uploads \in BOOLEAN :
            uploadOnCloudinary(NoPath, uploads, fs) = [response |-> Null, fs |-> fs]

\* C30: a Register that is valid but for its files is answered 400 and creates
\* no user when it has no avatar part or the avatar's upload fails, and
\* succeeds with coverImage "" when it has an avatar and no coverImage part
C30_AvatarRequiredCoverOptional ==
    (/\ resp.op = "register"
     /\ Missing = {} /\ Blank = {}
     /\ Named(req.body, resp.usersBefore) = {}) =>
        /\ req.files.avatar # "uploads" => (resp.status = 400 /\ CreatedNoUser)
        /\ (req.files.avatar = "uploads" /\ req.files.coverImage = "absent") =>
                /\ resp.status = 201
                /\ db[Len(db)].coverImage = ""

\* C21: no two user documents share a username, and no two share an email
C21_UsernamesAndEmailsAreUnique ==
    \A i \in 1..Len(db), j \in 1..Len(db) :
        i # j => (db[i].username # db[j].username /\ db[i].email # db[j].email)

\* two requests of route op were handled concurrently and both are answered
BothAnswered(op) == \A c \in Clients : calls[c].op = op /\ calls[c].pc = "done"

\* the two Register bodies name the same username or the same email
SameUsernameOrEmail ==
    \/ castUsername(calls[1].body.username) = castUsername(calls[2].body.username)
    \/ castEmail(calls[1].body.email) = castEmail(calls[2].body.email)

\* two concurrent Registers with one username both passed findOne, and the
\* unique index refused the second insert
C21_Witness ==
    /\ BothAnswered("register")
    /\ castUsername(calls[1].body.username) = castUsername(calls[2].body.username)
    /\ {calls[1].status, calls[2].status} = {201, 500}
    /\ \E c \in Clients : calls[c].error = "MongoServerError"

\* C28: of two concurrent Registers with the same username or email at most
\* one answers 201, and when one does the other is answered 409
C28_ConcurrentDuplicateIs409 ==
    (BothAnswered("register") /\ SameUsernameOrEmail) =>
        \A c \in Clients, d \in Clients :
            (c # d /\ calls[c].status = 201) => calls[d].status = 409

\* both concurrent Refreshes presented a token that names one stored user
RefreshesOfOneUser ==
    /\ BothAnswered("refresh")
    /\ calls[1].user # 0 /\ calls[1].user = calls[2].user

\* C22: when two concurrent Refreshes of a logged-in user have finished, the persisted
\* refresh token is the token one of them issued and returned to its caller,
\* and a later Refresh accepts it
C22_RotationIsLastWriterWins ==
    (RefreshesOfOneUser /\ session.uid = calls[1].user /\ session.phase = "fresh") =>
        LET persisted == db[calls[1].user].refreshToken
        IN /\ IsJwt(persisted)
           /\ \E c \in Clients :
                calls[c].status = 200 /\ calls[c].bodyRefreshToken = persisted
           /\ refershAccessToken(db, persisted, Undefined, now).status = 200

TokenOperations == {"login", "refresh", "logout"}

\* C31: Login, Refresh and Logout leave every stored password hash as it was
\* (the hash-on-save hook does nothing when the password is not modified), so
\* whichever password verified for a user before the operation verifies after
\* it, and no other does
C31_TokenOperationsKeepPassword ==
    resp.op \in TokenOperations =>
        \A i \in 1..resp.usersBefore :
            /\ db[i].password = resp.before[i].password
            /\ \A p \in Plaintexts :
                  isPasswordCorrect(db[i], p) = isPasswordCorrect(resp.before[i], p)

\* a Login has succeeded, its save has run, and the password it verified
\* still verifies
C31_Witness ==
    /\ resp.op = "login" /\ resp.status = 200
    /\ isPasswordCorrect(db[resp.uid], "p1")
    /\ req.op = "login" /\ req.body.password = "p1"

\* the collection with the refreshToken field of user u holding r
WithRefreshToken(d, u, r) == [d EXCEPT ![u].refreshToken = r]

\* the Auth Gate decides alike whatever the refreshToken field of a user holds
GateIgnoresRefreshToken ==
    \A c \in Credentials(now), u \in 1..Len(db) :
        LET gate == verifyJWT(db, c, Undefined, now)
            other == verifyJWT(WithRefreshToken(db, u, jwtSign(u, REFRESH_TOKEN_SECRET, now)),
                               c, Undefined, now)
        IN gate.user = other.user /\ gate.err = other.err

\* C32: the Auth Gate decides on the token and the existence of its subject
\* alone, never on the persisted refreshToken field, so that the access token
\* a Login issued is still accepted, while unexpired, after a Logout or a
\* Refresh has been answered
C32_AccessTokenIsStateless ==
    /\ GateIgnoresRefreshToken
    /\ (/\ session.uid # 0
        /\ resp.op \in {"logout", "refresh"}
        /\ Unexpired(session.accessToken))
          => LET gate == verifyJWT(db, session.accessToken, Undefined, now)
             IN gate.err = NoError /\ gate.user = session.uid

\* C33: a Change password that succeeds leaves the refreshToken field of the
\* user as it was, and the refresh token the user's Login issued is still
\* accepted by a Refresh afterwards
C33_ChangePasswordKeepsSession ==
    (resp.op = "changePassword" /\ resp.status = 200) =>
        /\ db[req.user].refreshToken = resp.before[req.user].refreshToken
        /\ (session.uid = req.user /\ Unexpired(session.refreshToken))
              => LET out == refershAccessToken(db, session.refreshToken, Undefined, now)
                 IN out.status = 200 /\ out.uid = req.user

\* C35: a Login or Refresh that succeeds sets the accessToken and refreshToken
\* cookies HTTP-only and secure, each to the token the body returns under the
\* same name, and the refreshToken cookie alone carries the next Refresh
C35_CookiesMirrorBody ==
    (resp.op \in {"login", "refresh"} /\ resp.status = 200) =>
        /\ resp.cookieOptions = {"httpOnly", "secure"}
        /\ resp.cookieAccessToken = resp.bodyAccessToken
        /\ resp.cookieRefreshToken = resp.bodyRefreshToken
        /\ refershAccessToken(db, resp.cookieRefreshToken, Undefined, now).status = 200

\* the paths of a user document that hold a credential
CredentialPaths == {"password", "refreshToken"}

====
